---- MODULE Spec2Model ----
(***************************************************************************)
(* ParticleSimulator2D: the render-and-logic loop of Game/main.cpp, its    *)
(* input step processInput, the seeding of the scene and the teardown.     *)
(*                                                                         *)
(* Units.  Positions, velocities and forces are whole pixels (the program  *)
(* uses float); material coefficients are percentages.  Time is counted in *)
(* quanta of 1/TimeDen second, and the accumulator deltaTime in 1/TimeDen  *)
(* tick, so that one tick is OneTick units and the product                 *)
(* (nowTime - lastTime) * TICKS_PER_SECOND is computed as the code does.   *)
(*                                                                         *)
(* Common.h, Input.h, Vector2.h and the bodies of the Entity classes are   *)
(* not part of the source; what the model needs of them is taken from the  *)
(* specification.  The values of their constants (screen size, ticks per   *)
(* second, gravity, radius, extents, masses) are in neither; those below   *)
(* are stand-ins, and no property checked here depends on them.            *)
(***************************************************************************)
EXTENDS Integers, Sequences, FiniteSets, TLC

\* ------------------------------------------------------------- bounds
\* The largest value of glfwGetTime() the model follows, in time quanta.
MaxTime == 4
\* The largest time one frame may take, in time quanta.
MaxElapsed == 4

\* ------------------------------------------- constants of Common.h
SCREEN_WIDTH == 800
SCREEN_HEIGHT == 600
TICKS_PER_SECOND == 60
GRAVITY == 10

\* ------------------------------------------- constants of the source
\* Entity.h: bounciness = 0.85f, friction = 0.05f, deactivation = 0.05f.
BouncinessPct == 85
FrictionPct == 5
DeactivationPct == 5
\* main.cpp: movement.y = 5.0f and the like; rotation = 1.0f.
MoveStep == 5
RotStep == 1
\* main.cpp:296 and 299: the offsets of the seeded positions.
BoxYOffset == 200
CircleOffset == 20
\* main.cpp:298: for (int i = 0; i < 2; i++).
SeedCircles == 2

\* ------------------------------------------- shapes (constructors)
CircleRadius == 10
BoxHalfWidth == 20
BoxHalfLength == 20
CircleMass == 2
BoxMass == 3
\* The speed the integrator clamps the velocity to.
MaxSpeed == 1000

\* One time quantum is half a tick period.
TimeDen == 2 * TICKS_PER_SECOND
\* The accumulator's value for one whole tick (1.0 in the code).
OneTick == TimeDen

\* ------------------------------------------------------------ helpers
\* C++ integer and float-to-whole division: truncation toward zero.
Quot(a, b) == IF a >= 0 THEN a \div b ELSE -((-a) \div b)

Abs(a) == IF a < 0 THEN -a ELSE a

VAdd(u, v) == <<u[1] + v[1], u[2] + v[2]>>
VSub(u, v) == <<u[1] - v[1], u[2] - v[2]>>
Dot(u, v) == u[1] * v[1] + u[2] * v[2]
\* v scaled by num/den, each component truncated.
VScale(v, num, den) == <<Quot(v[1] * num, den), Quot(v[2] * num, den)>>

\* The whole part of the square root of n, for 0 <= n <= top * top.
ISqrt(n, top) == CHOOSE k \in 0..top : k * k <= n /\ n < (k + 1) * (k + 1)

Clamp(x, lo, hi) == IF x < lo THEN lo ELSE IF x > hi THEN hi ELSE x

\* ------------------------------------------------------- the entities
Keys == {"ESC", "W", "S", "A", "D", "RIGHT", "LEFT"}

\* new EntityCircle(position, circleMesh), then setKinematic(k).
NewCircle(id, p, k) ==
    [id |-> id, type |-> "CIRCLE", kinematic |-> k, position |-> p,
     velocity |-> <<0, 0>>, force |-> <<0, 0>>, rotation |-> 0,
     mass |-> CircleMass]

\* new EntityBox(position, boxMesh).
NewBox(id, p) ==
    [id |-> id, type |-> "BOX", kinematic |-> FALSE, position |-> p,
     velocity |-> <<0, 0>>, force |-> <<0, 0>>, rotation |-> 0,
     mass |-> BoxMass]

\* ---------------------------------------------- Entity::Update (4.1)
\* The velocity v held to the speed MaxSpeed.
ClampSpeed(v) ==
    IF Dot(v, v) <= MaxSpeed * MaxSpeed THEN v
    ELSE VScale(v, MaxSpeed, ISqrt(Dot(v, v), Abs(v[1]) + Abs(v[2])))

\* One tick of integration: the force accelerates, friction damps, a speed
\* under the deactivation threshold is put to rest, the position advances and
\* the force is cleared.  A kinematic entity is left as it is.
UpdateEntity(e) ==
    IF e.kinematic THEN e
    ELSE LET acc == <<Quot(e.force[1], e.mass), Quot(e.force[2], e.mass)>>
             v1 == ClampSpeed(VAdd(e.velocity, acc))
             v2 == VScale(v1, 100 - FrictionPct, 100)
             v3 == IF 10000 * Dot(v2, v2) < DeactivationPct * DeactivationPct
                   THEN <<0, 0>> ELSE v2
         IN [e EXCEPT !.velocity = v3,
                      !.position = VAdd(e.position, v3),
                      !.force = <<0, 0>>]

\* ------------------------------------- collision detection (4.2)
\* A contact of a with b: whether they touch, the normal from a to b in
\* hundredths, and the penetration depth.
NoContact == [hit |-> FALSE, n |-> <<0, 0>>, depth |-> 0]

\* The unit vector of d in hundredths; a default when d is the zero vector.
Normal(d, len) ==
    IF len = 0 THEN <<100, 0>> ELSE <<Quot(100 * d[1], len), Quot(100 * d[2], len)>>

CircleCircle(a, b) ==
    LET d == VSub(b.position, a.position)
        r == CircleRadius + CircleRadius
    IN IF Dot(d, d) < r * r
       THEN LET len == ISqrt(Dot(d, d), r)
            IN [hit |-> TRUE, n |-> Normal(d, len), depth |-> r - len]
       ELSE NoContact

\* Circle c against the axis-aligned box x; the normal points from c to x.
CircleBox(c, x) ==
    LET near == <<Clamp(c.position[1], x.position[1] - BoxHalfWidth,
                        x.position[1] + BoxHalfWidth),
                  Clamp(c.position[2], x.position[2] - BoxHalfLength,
                        x.position[2] + BoxHalfLength)>>
        d == VSub(near, c.position)
    IN IF Dot(d, d) < CircleRadius * CircleRadius
       THEN LET len == ISqrt(Dot(d, d), CircleRadius)
            IN [hit |-> TRUE, n |-> Normal(d, len), depth |-> CircleRadius - len]
       ELSE NoContact

BoxBox(a, b) ==
    LET d == VSub(b.position, a.position)
        ox == 2 * BoxHalfWidth - Abs(d[1])
        oy == 2 * BoxHalfLength - Abs(d[2])
    IN IF ox > 0 /\ oy > 0
       THEN IF ox <= oy
            THEN [hit |-> TRUE, n |-> <<IF d[1] < 0 THEN -100 ELSE 100, 0>>,
                  depth |-> ox]
            ELSE [hit |-> TRUE, n |-> <<0, IF d[2] < 0 THEN -100 ELSE 100>>,
                  depth |-> oy]
       ELSE NoContact

Contact(a, b) ==
    IF a.type = "CIRCLE" /\ b.type = "CIRCLE" THEN CircleCircle(a, b)
    ELSE IF a.type = "CIRCLE" /\ b.type = "BOX" THEN CircleBox(a, b)
    ELSE IF a.type = "BOX" /\ b.type = "CIRCLE"
         THEN LET c == CircleBox(b, a)
              IN [c EXCEPT !.n = <<-c.n[1], -c.n[2]>>]
    ELSE BoxBox(a, b)

\* ------------------------------------- collision resolution (4.2)
\* The Collision(other) hook of each shape changes cosmetic state (the colour)
\* alone, which the model does not hold.
\* The share of a in a contact with b, as a numerator over
\* ShareOf(a, b) + ShareOf(b, a): invMass(a) / (invMass(a) + invMass(b)),
\* with invMass = 0 for a kinematic entity.
ShareOf(a, b) ==
    IF a.kinematic THEN 0 ELSE IF b.kinematic THEN 1 ELSE b.mass

\* The pair <<a', b'>> after the contact c of a with b is resolved.
ResolvePair(a, b, c) ==
    LET na == ShareOf(a, b)
        nb == ShareOf(b, a)
        den == na + nb
        pushA == VScale(c.n, c.depth * na, 100 * den)
        pushB == VScale(c.n, c.depth * nb, 100 * den)
        vRel == Dot(VSub(b.velocity, a.velocity), c.n)
        k == Quot((100 + BouncinessPct) * vRel, 100)
        impA == IF vRel > 0 THEN <<0, 0>> ELSE VScale(c.n, k * na, 10000 * den)
        impB == IF vRel > 0 THEN <<0, 0>> ELSE VScale(c.n, k * nb, 10000 * den)
    IN <<[a EXCEPT !.position = VSub(a.position, pushA),
                   !.velocity = VAdd(a.velocity, impA)],
         [b EXCEPT !.position = VAdd(b.position, pushB),
                   !.velocity = VSub(b.velocity, impB)]>>

\* Entity i of ents tested against entity j: the collection afterwards.
Resolve(ents, i, j) ==
    LET c == Contact(ents[i], ents[j])
    IN IF ~c.hit \/ (ents[i].kinematic /\ ents[j].kinematic) THEN ents
       ELSE LET r == ResolvePair(ents[i], ents[j], c)
            IN [ents EXCEPT ![i] = r[1], ![j] = r[2]]

RECURSIVE CheckFrom(_, _, _)
\* Entity i tested against the entities j, j+1, ... in collection order.
CheckFrom(ents, i, j) ==
    IF j > Len(ents) THEN ents
    ELSE CheckFrom(IF j = i THEN ents ELSE Resolve(ents, i, j), i, j + 1)

\* entities[i]->CheckCollisions(entities).
CheckCollisions(ents, i) == CheckFrom(ents, i, 1)

RECURSIVE HitsFrom(_, _, _)
\* The ids of the entities that CheckCollisions(ents, i) finds in contact.
HitsFrom(ents, i, j) ==
    IF j > Len(ents) THEN {}
    ELSE IF j = i THEN HitsFrom(ents, i, j + 1)
    ELSE (IF Contact(ents[i], ents[j]).hit THEN {ents[i].id, ents[j].id} ELSE {})
         \cup HitsFrom(Resolve(ents, i, j), i, j + 1)

\* Whether CheckCollisions(ents, i) resolves a contact with a kinematic and a
\* non-kinematic entity.
RECURSIVE MixedFrom(_, _, _)
MixedFrom(ents, i, j) ==
    IF j > Len(ents) THEN FALSE
    ELSE IF j = i THEN MixedFrom(ents, i, j + 1)
    ELSE (Contact(ents[i], ents[j]).hit /\ ents[i].kinematic # ents[j].kinematic)
         \/ MixedFrom(Resolve(ents, i, j), i, j + 1)

\* ------------------------------------------------ processInput (pure)
\* The mouse as one input step sees it: Input::getMouseButtonPressed of each
\* button and glfwGetCursorPos, in window coordinates (y grows downward).
MouseInputs ==
    {[b1 |-> FALSE, b2 |-> FALSE, cur |-> <<100, 500>>],
     [b1 |-> TRUE, b2 |-> FALSE, cur |-> <<100, 500>>],
     [b1 |-> TRUE, b2 |-> TRUE, cur |-> <<110, 500>>],
     [b1 |-> FALSE, b2 |-> TRUE, cur |-> <<110, 500>>],
     [b1 |-> FALSE, b2 |-> TRUE, cur |-> <<470, 514>>]}

\* The key states glfwGetKey reports: the keys held at the last glfwPollEvents.
HeldSets ==
    {{}, {"W"}, {"S", "D", "LEFT"}, {"A", "RIGHT"}, {"ESC"},
     {"W", "S", "A", "D", "RIGHT", "LEFT"}}

\* Mutant of Movement: the second key of each axis is tested by an if of its
\* own and overrides the first.
MovementNoElse(h) ==
    <<IF "D" \in h THEN MoveStep ELSE IF "A" \in h THEN -MoveStep ELSE 0,
      IF "S" \in h THEN -MoveStep ELSE IF "W" \in h THEN MoveStep ELSE 0>>

\* main.cpp:171-185: the movement vector <<x, y>>.
Movement(h) ==
    <<IF "A" \in h THEN -MoveStep ELSE IF "D" \in h THEN MoveStep ELSE 0,
      IF "W" \in h THEN MoveStep ELSE IF "S" \in h THEN -MoveStep ELSE 0>>

\* main.cpp:172, 187-192.
Rotation(h) ==
    IF "RIGHT" \in h THEN RotStep ELSE IF "LEFT" \in h THEN -RotStep ELSE 0

\* main.cpp:154-155: the cursor in world coordinates (y grows upward).
CursorWorld(cur) == <<cur[1], SCREEN_HEIGHT - cur[2]>>

\* Mutant of Spawned: the second button is tested by an if of its own.
SpawnedBoth(m, id) ==
    (IF m.b1 THEN <<NewCircle(id, CursorWorld(m.cur), FALSE)>> ELSE <<>>)
    \o (IF m.b2
        THEN <<NewCircle(id + (IF m.b1 THEN 1 ELSE 0), CursorWorld(m.cur), TRUE)>>
        ELSE <<>>)

\* main.cpp:157-164: the entities the input step creates, at most one.
Spawned(m, id) ==
    IF m.b1 THEN <<NewCircle(id, CursorWorld(m.cur), FALSE)>>
    ELSE IF m.b2 THEN <<NewCircle(id, CursorWorld(m.cur), TRUE)>>
    ELSE <<>>

\* Mutant of ApplyInput: the force is added without the isKinematic() test.
ApplyInputAll(e, mv, rot) ==
    [e EXCEPT !.force = <<e.force[1] + mv[1] * e.mass,
                          e.force[2] + mv[2] * (-GRAVITY) * e.mass>>,
              !.rotation = IF e.type = "BOX" THEN e.rotation + rot ELSE e.rotation]

\* main.cpp:195-201: the body of the loop over the entities.
ApplyInput(e, mv, rot) ==
    [e EXCEPT !.force = IF ~e.kinematic
                        THEN <<e.force[1] + mv[1] * e.mass,
                               e.force[2] + mv[2] * (-GRAVITY) * e.mass>>
                        ELSE e.force,
              !.rotation = IF e.type = "BOX" THEN e.rotation + rot ELSE e.rotation]

\* processInput: the collection after the input step with mouse m, keys h,
\* the next entity being number id.
ProcessInputEnts(ents, m, h, id) ==
    LET all == ents \o Spawned(m, id)
    IN [k \in 1..Len(all) |-> ApplyInput(all[k], Movement(h), Rotation(h))]

RECURSIVE UpdateAll(_, _)
\* main.cpp:318-320: Update() on the entities k, k+1, ...
UpdateAll(ents, k) ==
    IF k > Len(ents) THEN ents
    ELSE UpdateAll([ents EXCEPT ![k] = UpdateEntity(ents[k])], k + 1)

RECURSIVE CheckAll(_, _)
\* main.cpp:322-324: CheckCollisions(entities) on the entities k, k+1, ...
CheckAll(ents, k) ==
    IF k > Len(ents) THEN ents
    ELSE CheckAll(CheckCollisions(ents, k), k + 1)

\* main.cpp:315-324: one whole tick.
TickFn(ents, m, h, id) ==
    CheckAll(UpdateAll(ProcessInputEnts(ents, m, h, id), 1), 1)

\* ------------------------------------------------------------- rand()
\* rand() is never seeded: the draws are the C library's fixed sequence
\* (glibc's, the Microsoft runtime's).
RandSeqs ==
    {<<1804289383, 846930886, 1681692777, 1714636915, 1957747793, 424238335>>,
     <<41, 18467, 6334, 26500, 19169, 15724>>}

\* The order in which the two rand() calls of one argument list are
\* evaluated is unspecified: "xy" draws x first, "yx" draws y first.
ArgOrders == {"xy", "yx"}

DrawX(r, o) == IF o = "xy" THEN r[1] ELSE r[2]
DrawY(r, o) == IF o = "xy" THEN r[2] ELSE r[1]

\* main.cpp:296: Vector2(rand() % SCREEN_WIDTH * 0.8f, rand() % SCREEN_HEIGHT - 200).
BoxSeedPos(r, o) ==
    <<Quot((DrawX(r, o) % SCREEN_WIDTH) * 8, 10),
      (DrawY(r, o) % SCREEN_HEIGHT) - BoxYOffset>>

\* main.cpp:299: Vector2(rand() % SCREEN_WIDTH - 20, rand() % SCREEN_HEIGHT - 20).
CircleSeedPos(r, o) ==
    <<(DrawX(r, o) % SCREEN_WIDTH) - CircleOffset,
      (DrawY(r, o) % SCREEN_HEIGHT) - CircleOffset>>

\* -------------------------------------------------------------- state
VARIABLES
    pc,          \* the position in main()
    i,           \* the index of the for loop being run
    entities,    \* std::vector<Entity*> entities, each pointer with its object
    deleted,     \* per entity, the outcomes of the delete expressions on it
    inputAlive,  \* whether the Input object exists
    held,        \* the key states of the window
    shouldClose, \* the window's should-close flag
    lastTime,    \* double lastTime
    nowTime,     \* double nowTime
    deltaTime,   \* double deltaTime, the accumulator
    rnd,         \* the draws rand() has yet to return
    argOrder,    \* the build's order of evaluating the arguments
    nextId,      \* the number of the next entity to be created
    startTime,   \* history: the first reading of the clock
    ticks,       \* history: ticks completed
    frameTicks,  \* history: ticks completed in this frame
    accAtStep,   \* history: the accumulator when this frame began stepping
    log,         \* history: the calls of this frame, in order
    tickStart,   \* history: the length of log when the current tick began
    final,       \* history: the collection at the end of the last tick
    ref,         \* history: the collection TickFn gives for the inputs so far
    born,        \* history: per entity number, its state at creation
    collided,    \* history: the numbers of the entities found in contact
    mixed,       \* history: a kinematic and a moving entity were in contact
    looped,      \* history: the loop body has been entered
    lastIn,      \* history: the mouse input and keys of the current tick
    closedAt     \* history: where the should-close flag was first set

vars ==
    <<pc, i, entities, deleted, inputAlive, held, shouldClose, lastTime,
      nowTime, deltaTime, rnd, argOrder, nextId, startTime, ticks, frameTicks,
      accAtStep, log, tickStart, final, ref, born, collided, mixed, looped,
      lastIn, closedAt>>

NoMouse == [b1 |-> FALSE, b2 |-> FALSE, cur |-> <<0, 0>>]
NoInput == [mouse |-> NoMouse, keys |-> {}, before |-> <<>>]

Init ==
    /\ pc = "spawn_box"
    /\ i = 0
    /\ entities = <<>>
    /\ deleted = <<>>
    /\ inputAlive = TRUE
    /\ held = {}
    /\ shouldClose = FALSE
    /\ lastTime = 0
    /\ nowTime = 0
    /\ deltaTime = 0
    /\ rnd \in RandSeqs
    /\ argOrder \in ArgOrders
    /\ nextId = 1
    /\ startTime = 0
    /\ ticks = 0
    /\ frameTicks = 0
    /\ accAtStep = 0
    /\ log = <<>>
    /\ tickStart = 0
    /\ final = <<>>
    /\ ref = <<>>
    /\ born = <<>>
    /\ collided = {}
    /\ mixed = FALSE
    /\ looped = FALSE
    /\ lastIn = NoInput
    /\ closedAt = <<>>

history ==
    <<startTime, ticks, frameTicks, accAtStep, log, tickStart, final, ref,
      born, collided, mixed, looped, lastIn, closedAt>>

Birth(e) == [position |-> e.position, velocity |-> e.velocity, force |-> e.force]

\* main.cpp:296.
SpawnBox ==
    /\ pc = "spawn_box"
    /\ LET e == NewBox(nextId, BoxSeedPos(SubSeq(rnd, 1, 2), argOrder))
       IN /\ entities' = Append(entities, e)
          /\ born' = Append(born, Birth(e))
    /\ deleted' = Append(deleted, <<>>)
    /\ rnd' = SubSeq(rnd, 3, Len(rnd))
    /\ nextId' = nextId + 1
    /\ pc' = "spawn_circle"
    /\ i' = 0
    /\ UNCHANGED <<inputAlive, held, shouldClose, lastTime, nowTime, deltaTime,
                   argOrder, startTime, ticks, frameTicks, accAtStep, log,
                   tickStart, final, ref, collided, mixed, looped, lastIn, closedAt>>

\* Mutant of SpawnCircle: the loop bound is off by one (i < 1).
SpawnCircleShort ==
    /\ pc = "spawn_circle"
    /\ IF i < SeedCircles - 1
       THEN /\ LET e == NewCircle(nextId, CircleSeedPos(SubSeq(rnd, 1, 2), argOrder),
                                  FALSE)
               IN /\ entities' = Append(entities, e)
                  /\ born' = Append(born, Birth(e))
            /\ deleted' = Append(deleted, <<>>)
            /\ rnd' = SubSeq(rnd, 3, Len(rnd))
            /\ nextId' = nextId + 1
            /\ i' = i + 1
            /\ pc' = pc
       ELSE /\ pc' = "init_time"
            /\ i' = 0
            /\ UNCHANGED <<entities, born, deleted, rnd, nextId>>
    /\ UNCHANGED <<inputAlive, held, shouldClose, lastTime, nowTime, deltaTime,
                   argOrder, startTime, ticks, frameTicks, accAtStep, log,
                   tickStart, final, ref, collided, mixed, looped, lastIn, closedAt>>

\* main.cpp:298-300.
SpawnCircle ==
    /\ pc = "spawn_circle"
    /\ IF i < SeedCircles
       THEN /\ LET e == NewCircle(nextId, CircleSeedPos(SubSeq(rnd, 1, 2), argOrder),
                                  FALSE)
               IN /\ entities' = Append(entities, e)
                  /\ born' = Append(born, Birth(e))
            /\ deleted' = Append(deleted, <<>>)
            /\ rnd' = SubSeq(rnd, 3, Len(rnd))
            /\ nextId' = nextId + 1
            /\ i' = i + 1
            /\ pc' = pc
       ELSE /\ pc' = "init_time"
            /\ i' = 0
            /\ UNCHANGED <<entities, born, deleted, rnd, nextId>>
    /\ UNCHANGED <<inputAlive, held, shouldClose, lastTime, nowTime, deltaTime,
                   argOrder, startTime, ticks, frameTicks, accAtStep, log,
                   tickStart, final, ref, collided, mixed, looped, lastIn, closedAt>>

\* main.cpp:302-303: lastTime = glfwGetTime(); deltaTime = 0, nowTime = 0.
InitTime ==
    /\ pc = "init_time"
    /\ \E t \in 0..1 :
          /\ lastTime' = t
          /\ startTime' = t
    /\ deltaTime' = 0
    /\ nowTime' = 0
    /\ final' = entities
    /\ ref' = entities
    /\ pc' = "loop"
    /\ UNCHANGED <<i, entities, deleted, inputAlive, held, shouldClose, rnd,
                   argOrder, nextId, ticks, frameTicks, accAtStep, log, tickStart,
                   born, collided, mixed, looped, lastIn, closedAt>>

\* main.cpp:306: while (!glfwWindowShouldClose(window)).
LoopTest ==
    /\ pc = "loop"
    /\ IF shouldClose
       THEN pc' = "cleanup" /\ i' = 0
       ELSE pc' = "measure" /\ i' = i
    /\ UNCHANGED <<entities, deleted, inputAlive, held, shouldClose, lastTime,
                   nowTime, deltaTime, rnd, argOrder, nextId, history>>

\* main.cpp:308-310: the clock is read; it never runs backward.
Measure ==
    /\ pc = "measure"
    /\ \E t \in lastTime..MaxTime :
          /\ t - lastTime <= MaxElapsed
          /\ nowTime' = t
          /\ deltaTime' = deltaTime + (t - lastTime) * TICKS_PER_SECOND
          /\ lastTime' = t
    /\ accAtStep' = deltaTime'
    /\ frameTicks' = 0
    /\ log' = <<>>
    /\ tickStart' = 0
    /\ looped' = TRUE
    /\ pc' = "step"
    /\ UNCHANGED <<i, entities, deleted, inputAlive, held, shouldClose, rnd,
                   argOrder, nextId, startTime, ticks, final, ref, born,
                   collided, mixed, lastIn, closedAt>>

\* Mutant of StepTest: an if in place of the while, one tick a frame at most.
StepTestOnce ==
    /\ pc = "step"
    /\ IF deltaTime >= OneTick /\ frameTicks = 0
       THEN pc' = "input" /\ tickStart' = Len(log)
       ELSE pc' = "render" /\ tickStart' = tickStart
    /\ i' = 0
    /\ UNCHANGED <<entities, deleted, inputAlive, held, shouldClose, lastTime,
                   nowTime, deltaTime, rnd, argOrder, nextId, startTime, ticks,
                   frameTicks, accAtStep, log, final, ref, born, collided, mixed,
                   looped, lastIn, closedAt>>

\* Mutant of StepTest: the stepping loop also ends once a quit is requested.
StepTestStop ==
    /\ pc = "step"
    /\ IF deltaTime >= OneTick /\ ~shouldClose
       THEN pc' = "input" /\ tickStart' = Len(log)
       ELSE pc' = "render" /\ tickStart' = tickStart
    /\ i' = 0
    /\ UNCHANGED <<entities, deleted, inputAlive, held, shouldClose, lastTime,
                   nowTime, deltaTime, rnd, argOrder, nextId, startTime, ticks,
                   frameTicks, accAtStep, log, final, ref, born, collided, mixed,
                   looped, lastIn, closedAt>>

\* main.cpp:313: while (deltaTime >= 1.0); after the loop, glClear (330).
StepTest ==
    /\ pc = "step"
    /\ IF deltaTime >= OneTick
       THEN pc' = "input" /\ tickStart' = Len(log)
       ELSE pc' = "render" /\ tickStart' = tickStart
    /\ i' = 0
    /\ UNCHANGED <<entities, deleted, inputAlive, held, shouldClose, lastTime,
                   nowTime, deltaTime, rnd, argOrder, nextId, startTime, ticks,
                   frameTicks, accAtStep, log, final, ref, born, collided, mixed,
                   looped, lastIn, closedAt>>

\* Mutant of ProcessInput: the force of a frame is applied at once, the
\* movement scaled by the whole ticks the accumulator holds.
ProcessInputByFrame ==
    /\ pc = "input"
    /\ \E m \in MouseInputs :
          /\ entities' =
                LET all == entities \o Spawned(m, nextId)
                    mv == Movement(held)
                    owed == deltaTime \div OneTick
                IN [k \in 1..Len(all) |->
                      ApplyInput(all[k], <<mv[1] * owed, mv[2] * owed>>, Rotation(held))]
          /\ nextId' = nextId + Len(Spawned(m, nextId))
          /\ deleted' = deleted \o [k \in 1..Len(Spawned(m, nextId)) |-> <<>>]
          /\ born' = born \o [k \in 1..Len(Spawned(m, nextId)) |->
                                Birth(Spawned(m, nextId)[k])]
          /\ ref' = TickFn(ref, m, held, nextId)
          /\ lastIn' = [mouse |-> m, keys |-> held, before |-> entities]
    /\ shouldClose' = (shouldClose \/ "ESC" \in held)
    /\ closedAt' = IF ~shouldClose /\ shouldClose' THEN <<"input", frameTicks>>
                   ELSE closedAt
    /\ log' = Append(log, <<"processInput", 0>>)
    /\ pc' = "update"
    /\ i' = 0
    /\ UNCHANGED <<inputAlive, held, lastTime, nowTime, deltaTime, rnd, argOrder,
                   startTime, ticks, frameTicks, accAtStep, tickStart, final,
                   collided, mixed, looped>>

\* main.cpp:315-316: input->Update(); processInput(window).
ProcessInput ==
    /\ pc = "input"
    /\ \E m \in MouseInputs :
          /\ entities' = ProcessInputEnts(entities, m, held, nextId)
          /\ nextId' = nextId + Len(Spawned(m, nextId))
          /\ deleted' = deleted \o [k \in 1..Len(Spawned(m, nextId)) |-> <<>>]
          /\ born' = born \o [k \in 1..Len(Spawned(m, nextId)) |->
                                Birth(Spawned(m, nextId)[k])]
          /\ ref' = TickFn(ref, m, held, nextId)
          /\ lastIn' = [mouse |-> m, keys |-> held, before |-> entities]
    /\ shouldClose' = (shouldClose \/ "ESC" \in held)
    /\ closedAt' = IF ~shouldClose /\ shouldClose' THEN <<"input", frameTicks>>
                   ELSE closedAt
    /\ log' = Append(log, <<"processInput", 0>>)
    /\ pc' = "update"
    /\ i' = 0
    /\ UNCHANGED <<inputAlive, held, lastTime, nowTime, deltaTime, rnd, argOrder,
                   startTime, ticks, frameTicks, accAtStep, tickStart, final,
                   collided, mixed, looped>>

\* Mutant of Update: one loop integrates an entity and checks its collisions
\* before the next entity is integrated.
UpdateFused ==
    /\ pc = "update"
    /\ IF i < Len(entities)
       THEN /\ entities' = CheckCollisions(
                               [entities EXCEPT ![i + 1] = UpdateEntity(entities[i + 1])],
                               i + 1)
            /\ log' = log \o <<<<"Update", entities[i + 1].id>>,
                                <<"CheckCollisions", entities[i + 1].id>>>>
            /\ i' = i + 1
            /\ pc' = pc
       ELSE /\ pc' = "dec"
            /\ i' = 0
            /\ UNCHANGED <<entities, log>>
    /\ UNCHANGED <<deleted, inputAlive, held, shouldClose, lastTime, nowTime,
                   deltaTime, rnd, argOrder, nextId, startTime, ticks, frameTicks,
                   accAtStep, tickStart, final, ref, born, collided, mixed,
                   looped, lastIn, closedAt>>

\* main.cpp:318-320.
Update ==
    /\ pc = "update"
    /\ IF i < Len(entities)
       THEN /\ entities' = [entities EXCEPT ![i + 1] = UpdateEntity(entities[i + 1])]
            /\ log' = Append(log, <<"Update", entities[i + 1].id>>)
            /\ i' = i + 1
            /\ pc' = pc
       ELSE /\ pc' = "collide"
            /\ i' = 0
            /\ UNCHANGED <<entities, log>>
    /\ UNCHANGED <<deleted, inputAlive, held, shouldClose, lastTime, nowTime,
                   deltaTime, rnd, argOrder, nextId, startTime, ticks, frameTicks,
                   accAtStep, tickStart, final, ref, born, collided, mixed,
                   looped, lastIn, closedAt>>

\* main.cpp:322-324.
Collide ==
    /\ pc = "collide"
    /\ IF i < Len(entities)
       THEN /\ entities' = CheckCollisions(entities, i + 1)
            /\ collided' = collided \cup HitsFrom(entities, i + 1, 1)
            /\ mixed' = (mixed \/ MixedFrom(entities, i + 1, 1))
            /\ log' = Append(log, <<"CheckCollisions", entities[i + 1].id>>)
            /\ i' = i + 1
            /\ pc' = pc
       ELSE /\ pc' = "dec"
            /\ i' = 0
            /\ UNCHANGED <<entities, collided, mixed, log>>
    /\ UNCHANGED <<deleted, inputAlive, held, shouldClose, lastTime, nowTime,
                   deltaTime, rnd, argOrder, nextId, startTime, ticks, frameTicks,
                   accAtStep, tickStart, final, ref, born, looped, lastIn, closedAt>>

\* Mutant of Decrement: the accumulator is cleared instead of decremented.
DecrementReset ==
    /\ pc = "dec"
    /\ deltaTime' = 0
    /\ ticks' = ticks + 1
    /\ frameTicks' = frameTicks + 1
    /\ final' = entities
    /\ lastIn' = NoInput
    /\ pc' = "step"
    /\ UNCHANGED <<i, entities, deleted, inputAlive, held, shouldClose, lastTime,
                   nowTime, rnd, argOrder, nextId, startTime, accAtStep, log,
                   tickStart, ref, born, collided, mixed, looped, closedAt>>

\* main.cpp:326: deltaTime--.
Decrement ==
    /\ pc = "dec"
    /\ deltaTime' = deltaTime - OneTick
    /\ ticks' = ticks + 1
    /\ frameTicks' = frameTicks + 1
    /\ final' = entities
    /\ lastIn' = NoInput
    /\ pc' = "step"
    /\ UNCHANGED <<i, entities, deleted, inputAlive, held, shouldClose, lastTime,
                   nowTime, rnd, argOrder, nextId, startTime, accAtStep, log,
                   tickStart, ref, born, collided, mixed, looped, closedAt>>

\* main.cpp:333-335: entities[i]->Render(shaderProgram, deltaTime) reads the
\* entity and draws it.
Render ==
    /\ pc = "render"
    /\ IF i < Len(entities)
       THEN /\ log' = Append(log, <<"Render", entities[i + 1].id>>)
            /\ i' = i + 1
            /\ pc' = pc
       ELSE /\ pc' = "swap"
            /\ i' = 0
            /\ log' = log
    /\ UNCHANGED <<entities, deleted, inputAlive, held, shouldClose, lastTime,
                   nowTime, deltaTime, rnd, argOrder, nextId, startTime, ticks,
                   frameTicks, accAtStep, tickStart, final, ref, born, collided,
                   mixed, looped, lastIn, closedAt>>

\* main.cpp:344-345: glfwSwapBuffers; glfwPollEvents takes the key events and
\* a close request of the window.
SwapAndPoll ==
    /\ pc = "swap"
    /\ held' \in HeldSets
    /\ \E close \in BOOLEAN : shouldClose' = (shouldClose \/ close)
    /\ closedAt' = IF ~shouldClose /\ shouldClose' THEN <<"poll", frameTicks>>
                   ELSE closedAt
    /\ pc' = "loop"
    /\ UNCHANGED <<i, entities, deleted, inputAlive, lastTime, nowTime, deltaTime,
                   rnd, argOrder, nextId, startTime, ticks, frameTicks, accAtStep,
                   log, tickStart, final, ref, born, collided, mixed, looped,
                   lastIn>>

\* ~Entity() is not virtual (Entity.h) and the entities are deleted through
\* Entity*: the behaviour is undefined.  A build runs the destructor of the
\* base class alone or that of the whole object, the same way at each delete.
DeleteOutcomes == {"base", "whole"}

\* Mutant of Cleanup: every pass deletes entities[0].
CleanupFirst ==
    /\ pc = "cleanup"
    /\ IF i < Len(entities)
       THEN /\ \E d \in DeleteOutcomes :
                  /\ i > 0 => d = deleted[1][1]
                  /\ deleted' = [deleted EXCEPT ![1] = Append(deleted[1], d)]
            /\ i' = i + 1
            /\ pc' = pc
       ELSE /\ pc' = "delete_input"
            /\ i' = 0
            /\ deleted' = deleted
    /\ UNCHANGED <<entities, inputAlive, held, shouldClose, lastTime, nowTime,
                   deltaTime, rnd, argOrder, nextId, history>>

\* main.cpp:349-351: delete entities[i].
Cleanup ==
    /\ pc = "cleanup"
    /\ IF i < Len(entities)
       THEN /\ \E d \in DeleteOutcomes :
                  /\ i > 0 => d = deleted[1][1]
                  /\ deleted' = [deleted EXCEPT ![i + 1] = Append(deleted[i + 1], d)]
            /\ i' = i + 1
            /\ pc' = pc
       ELSE /\ pc' = "delete_input"
            /\ i' = 0
            /\ deleted' = deleted
    /\ UNCHANGED <<entities, inputAlive, held, shouldClose, lastTime, nowTime,
                   deltaTime, rnd, argOrder, nextId, history>>

\* main.cpp:352-355: delete input; glDeleteProgram; glfwTerminate; return 0.
Teardown ==
    /\ pc = "delete_input"
    /\ inputAlive' = FALSE
    /\ pc' = "done"
    /\ UNCHANGED <<i, entities, deleted, held, shouldClose, lastTime, nowTime,
                   deltaTime, rnd, argOrder, nextId, history>>

Next ==
    \/ SpawnBox
    \/ SpawnCircle
    \/ InitTime
    \/ LoopTest
    \/ Measure
    \/ StepTest
    \/ ProcessInput
    \/ Update
    \/ Collide
    \/ Decrement
    \/ Render
    \/ SwapAndPoll
    \/ Cleanup
    \/ Teardown

Spec == Init /\ [][Next]_vars

\* ------------------------------------------------------- the claims
InTick == pc \in {"input", "update", "collide", "dec"}
Stepping == pc = "step" \/ InTick
Rendering == pc \in {"render", "swap"}
TornDown == pc \in {"cleanup", "delete_input", "done"}

IsPrefix(s, t) == Len(s) <= Len(t) /\ s = SubSeq(t, 1, Len(s))

\* The calls of the current tick.
TickCalls == SubSeq(log, tickStart + 1, Len(log))

\* How often the call c occurs in the sequence s.
Count(s, c) == Cardinality({k \in 1..Len(s) : s[k] = c})

\* C1: the time measured so far, times TICKS_PER_SECOND, equals the ticks run
\* plus the accumulator (each frame adds its elapsed time, each tick takes off
\* exactly one); while a frame steps, a tick runs only with accumulator >= 1;
\* when rendering starts the frame has run exactly floor(a) ticks for the
\* accumulator a it began stepping with, and 0 <= accumulator < 1.
C1_FixedTimestep ==
    /\ (lastTime - startTime) * TICKS_PER_SECOND = ticks * OneTick + deltaTime
    /\ deltaTime >= 0
    /\ Stepping => deltaTime = accAtStep - frameTicks * OneTick
    /\ InTick => deltaTime >= OneTick
    /\ Rendering => /\ deltaTime < OneTick
                    /\ frameTicks = accAtStep \div OneTick
                    /\ deltaTime = accAtStep % OneTick

\* A frame that ran a tick and starts rendering with a fraction of a tick left.
C1_Witness ==
    /\ pc = "render"
    /\ frameTicks >= 1
    /\ deltaTime > 0
    /\ accAtStep > OneTick

\* The calls of one whole tick on the collection ents, in order.
ExpectedCalls(ents) ==
    <<<<"processInput", 0>>>>
    \o [k \in 1..Len(ents) |-> <<"Update", ents[k].id>>]
    \o [k \in 1..Len(ents) |-> <<"CheckCollisions", ents[k].id>>]

\* C2: in a tick processInput is called first, then Update once per entity in
\* collection order, then CheckCollisions once per entity in collection order,
\* no CheckCollisions before the last Update; the entities are those of the
\* collection after the input step, an entity spawned by it included.
C2_TickOrder ==
    /\ pc = "input" => TickCalls = <<>>
    /\ pc \in {"update", "collide", "dec"} =>
          /\ IsPrefix(TickCalls, ExpectedCalls(entities))
          /\ Len(TickCalls) = CASE pc = "update" -> 1 + i
                                [] pc = "collide" -> 1 + Len(entities) + i
                                [] pc = "dec" -> 1 + 2 * Len(entities)
          /\ \A k \in 1..Len(TickCalls), m \in 1..Len(TickCalls) :
                (TickCalls[k][1] = "CheckCollisions" /\ TickCalls[m][1] = "Update")
                => m < k
    /\ pc = "dec" =>
          \A k \in 1..Len(entities) :
             /\ Count(TickCalls, <<"Update", entities[k].id>>) = 1
             /\ Count(TickCalls, <<"CheckCollisions", entities[k].id>>) = 1

\* The end of a tick whose input step spawned an entity.
C2_Witness ==
    /\ pc = "dec"
    /\ Len(entities) = Len(lastIn.before) + 1
    /\ Count(TickCalls, <<"Update", entities[Len(entities)].id>>) = 1

\* The Render calls of this frame.
RenderCalls == SelectSeq(log, LAMBDA c : c[1] = "Render")

\* C3: Render is called only when every tick owed for the frame has completed
\* (accumulator < 1); once a Render call of a frame has been made, the frame
\* makes no further processInput, Update or CheckCollisions call; and what
\* Render reads is the collection as the last completed tick left it.
C3_PhysicsBeforeRender ==
    /\ \A k \in 1..Len(log) :
          log[k][1] = "Render" => \A m \in k..Len(log) : log[m][1] = "Render"
    /\ (pc = "render" \/ RenderCalls # <<>>) =>
          /\ deltaTime < OneTick
          /\ entities = final
          /\ ~InTick
    /\ Rendering => frameTicks * OneTick + deltaTime = accAtStep
    /\ pc = "swap" =>
          RenderCalls = [k \in 1..Len(entities) |-> <<"Render", entities[k].id>>]

\* A frame that ran two ticks and then rendered every entity.
C3_Witness ==
    /\ pc = "swap"
    /\ frameTicks = 2
    /\ Len(RenderCalls) = Len(entities)
    /\ Len(log) > Len(RenderCalls)

\* C4: whenever no tick is under way, the collection (positions, velocities,
\* forces, rotations, order) is the one TickFn yields from the seeded
\* collection and the inputs of the ticks run so far, one tick per input,
\* however many frames those ticks were spread over: two runs with the same
\* seeded collection and the same input in each tick agree after equally many
\* ticks.
C4_FrameRateIndependence ==
    (pc \in {"loop", "measure", "step", "dec", "render", "swap"} \/ TornDown)
    => entities = ref

\* Two ticks run in one frame, with keys held and entities in contact.
C4_Witness ==
    /\ pc = "render"
    /\ ticks = 2
    /\ frameTicks = 2
    /\ held # {}
    /\ collided # {}

\* C5: an entity created kinematic keeps the position, the velocity and the
\* force it was created with, through input steps, Update and CheckCollisions.
C5_KinematicInvariant ==
    \A k \in 1..Len(entities) :
       entities[k].kinematic =>
          /\ entities[k].position = born[entities[k].id].position
          /\ entities[k].velocity = born[entities[k].id].velocity
          /\ entities[k].force = born[entities[k].id].force

\* A kinematic entity at the end of a tick in which a movement key was held
\* and it was in contact with a moving entity.
C5_Witness ==
    /\ pc = "dec"
    /\ mixed
    /\ Movement(lastIn.keys) # <<0, 0>>
    /\ \E k \in 1..Len(entities) :
          entities[k].kinematic /\ entities[k].id \in collided

\* C6: the collection is at all times the sequence of every entity created so
\* far, in the order of creation (nothing is removed or moved); no entity is
\* deleted before the teardown, and the teardown deletes each exactly once.
C6_EntityLifetime ==
    /\ Len(entities) = nextId - 1
    /\ Len(deleted) = Len(entities)
    /\ \A k \in 1..Len(entities) :
          /\ entities[k].id = k
          /\ ~TornDown => Len(deleted[k]) = 0
          /\ pc = "cleanup" => Len(deleted[k]) = (IF k <= i THEN 1 ELSE 0)
          /\ pc \in {"delete_input", "done"} => Len(deleted[k]) = 1

\* The program has ended with an entity spawned by a click among the deleted.
C6_Witness ==
    /\ pc = "done"
    /\ Len(entities) > 1 + SeedCircles
    /\ \A k \in 1..Len(entities) : Len(deleted[k]) = 1

\* The place in the window where the projection of main.cpp:282 draws the
\* world point p (the window's y grows downward).
OnScreen(p) == <<p[1], SCREEN_HEIGHT - p[2]>>

JustAfterInput == pc = "update" /\ i = 0

\* C7: after the input step the collection is the one before it plus, with the
\* primary button pressed, one non-kinematic entity drawn at the cursor; else
\* with the secondary button pressed, one kinematic entity drawn at the cursor;
\* else nothing.
C7_SpawnOnClick ==
    JustAfterInput =>
       LET m == lastIn.mouse
           n == Len(lastIn.before)
       IN /\ Len(entities) <= n + 1
          /\ \A k \in 1..n : entities[k].id = lastIn.before[k].id
          /\ m.b1 => /\ Len(entities) = n + 1
                     /\ ~entities[n + 1].kinematic
                     /\ OnScreen(entities[n + 1].position) = m.cur
          /\ (~m.b1 /\ m.b2) => /\ Len(entities) = n + 1
                                /\ entities[n + 1].kinematic
                                /\ OnScreen(entities[n + 1].position) = m.cur
          /\ (~m.b1 /\ ~m.b2) => Len(entities) = n

\* An input step with both buttons pressed.
C7_Witness ==
    /\ JustAfterInput
    /\ lastIn.mouse.b1
    /\ lastIn.mouse.b2
    /\ Len(entities) = Len(lastIn.before) + 1

\* Whether every entity has been rendered since the last tick.
RenderedAll ==
    RenderCalls = [k \in 1..Len(entities) |-> <<"Render", entities[k].id>>]

\* C8: the loop has been left only with the should-close flag set, and only at
\* the loop test: the frame in which the flag was set ran every tick it owed
\* and rendered every entity.
C8_ShutdownOnly ==
    TornDown =>
       /\ shouldClose
       /\ closedAt # <<>>
       /\ deltaTime < OneTick
       /\ frameTicks = accAtStep \div OneTick
       /\ entities = final
       /\ RenderedAll

\* Escape was seen by the first tick of a frame that owed two, and the loop
\* has ended.
C8_Witness ==
    /\ pc = "cleanup"
    /\ closedAt = <<"input", 0>>
    /\ frameTicks = 2

\* The movement vector <<x, y>> of the keys h, as the claim states it.
ClaimedMovement(h) ==
    <<CASE "A" \in h -> -5 [] "A" \notin h /\ "D" \in h -> 5 [] OTHER -> 0,
      CASE "W" \in h -> 5 [] "W" \notin h /\ "S" \in h -> -5 [] OTHER -> 0>>

\* The entity e after an input step before which it was b, under movement mv.
ForcedBy(e, b, mv) ==
    /\ e.position = b.position
    /\ e.velocity = b.velocity
    /\ e.mass = b.mass
    /\ e.force = IF b.kinematic THEN b.force
                 ELSE <<b.force[1] + mv[1] * b.mass,
                        b.force[2] + mv[2] * (-GRAVITY) * b.mass>>

\* C9: the input step adds (movement.x * mass, movement.y * -GRAVITY * mass)
\* to the force of each non-kinematic entity and to no other; with no movement
\* key held no force changes; position, velocity and mass do not change.
C9_ForceByInput ==
    JustAfterInput =>
       LET mv == ClaimedMovement(lastIn.keys)
           n == Len(lastIn.before)
       IN /\ \A k \in 1..n : ForcedBy(entities[k], lastIn.before[k], mv)
          /\ \A k \in (n + 1)..Len(entities) :
                ForcedBy(entities[k],
                         [entities[k] EXCEPT !.force = born[entities[k].id].force],
                         mv)
          /\ lastIn.keys \cap {"W", "S", "A", "D"} = {} =>
                \A k \in 1..n : entities[k].force = lastIn.before[k].force

\* An input step with W, S, A and D held and a kinematic entity present.
C9_Witness ==
    /\ JustAfterInput
    /\ {"W", "S", "A", "D"} \subseteq lastIn.keys
    /\ \E k \in 1..Len(entities) : entities[k].kinematic
    /\ \E k \in 1..Len(entities) : ~entities[k].kinematic

FirstLoopEntry == pc = "loop" /\ ~looped

\* C10 as stated: when the loop is first entered the collection is empty and
\* the accumulator is 0.
C10_EmptyAtLoopEntry ==
    FirstLoopEntry => (Len(entities) = 0 /\ deltaTime = 0)

\* C10 amended: when the loop is first entered the collection holds the seeded
\* scene, one box followed by two circles, none kinematic, all at rest, and the
\* accumulator is 0.
C10_SeededAtLoopEntry ==
    FirstLoopEntry =>
       /\ deltaTime = 0
       /\ Len(entities) = 3
       /\ entities[1].type = "BOX"
       /\ \A k \in 2..3 : entities[k].type = "CIRCLE"
       /\ \A k \in 1..3 : /\ ~entities[k].kinematic
                          /\ entities[k].velocity = <<0, 0>>
                          /\ entities[k].force = <<0, 0>>

\* The loop is about to be entered for the first time.
C10_Witness ==
    /\ FirstLoopEntry
    /\ Len(entities) > 0

====
